---- MODULE Spec2Model ----
(***************************************************************************)
(* Offline-first task list: the record service (TaskService), the sync     *)
(* engine (SyncService) and the trigger surface (POST /sync).              *)
(*                                                                         *)
(* The record store and the queue store (class Database) are modelled     *)
(* from their interface: a map task id -> record, and a list of queue rows *)
(* in insertion order, updated by row id and deleted by task id.           *)
(*                                                                         *)
(* Every `await` of a handler is a point where another handler may run.    *)
(* The model takes one step per record mutation, per probe, per queue      *)
(* read, per batch request and per handled result / failed item.           *)
(***************************************************************************)
EXTENDS Integers, Sequences, FiniteSets, TLC

\* ---------------------------------------------------------------- bounds
MaxTasks == 2        \* task ids 1..MaxTasks
MaxMutations == 2    \* record mutations requested by the user
MaxSyncs == 2        \* POST /sync requests
MaxRetrySyncs == 5   \* POST /sync requests, when one operation is retried
MaxItems == 3        \* record mutations around a single POST /sync
MaxProcs == 2        \* request handlers that may be in flight together
MaxBatch == 2        \* SYNC_BATCH_SIZE is drawn from 1..MaxBatch
MaxClock == 2        \* wall-clock readings 1..MaxClock
MaxStamp == 3        \* updatedAt instants 1..MaxStamp given to resolveConflict

\* ------------------------------------------------------------- constants
RetryCeiling == 3

TaskIds == 1..MaxTasks
Procs == 1..MaxProcs
NULL == 0

VARIABLES
    tasks,          \* record store: task id -> record
    queue,          \* queue store: rows in insertion order
    nextId,         \* next fresh queue row id (crypto.randomUUID)
    clock,          \* the wall clock (new Date())
    batchSize,      \* SyncService.batchSize
    pc,             \* per handler: position in POST /sync -> sync()
    queueItems,     \* per handler: the items read by getSyncQueueItems()
    i,              \* per handler: loop index of sync() (0-based)
    results,        \* per handler: response.results of the current batch
    k,              \* per handler: position in results / in the failed batch
    successCount,   \* per handler
    errorCount,     \* per handler
    calls,          \* per handler: the batches sent so far, as row ids
    entry,          \* per handler: what held when the current batch was sent
    response,       \* per handler: what POST /sync answered last
    attempts,       \* row id -> number of sync() passes that sent it
    mutations,      \* record mutations so far
    syncs,          \* POST /sync requests so far
    conflict        \* a call of resolveConflict: <<local, server>>, then the
                    \* returned task as third element

procVars == <<pc, queueItems, i, results, k, successCount, errorCount,
              calls, entry, response>>
storeVars == <<tasks, queue, nextId>>
vars == <<tasks, queue, nextId, clock, batchSize, pc, queueItems, i, results,
          k, successCount, errorCount, calls, entry, response, attempts,
          mutations, syncs, conflict>>

\* ------------------------------------------------------------ the stores
\* A store state is [tasks |-> .., queue |-> .., nextId |-> ..].
Stores == [tasks |-> tasks, queue |-> queue, nextId |-> nextId]

NoTask == [exists |-> FALSE, isDeleted |-> FALSE, updatedAt |-> NULL,
           syncStatus |-> "pending", lastSyncedAt |-> NULL, serverId |-> NULL]

RowIds(q) == {q[n].id : n \in 1..Len(q)}

RowOf(q, id) == q[CHOOSE n \in 1..Len(q) : q[n].id = id]

\* The rows of q, in order, that are not of task taskId.
RowsNotOf(q, taskId) ==
    LET F[n \in 0..Len(q)] ==
            IF n = 0 THEN <<>>
            ELSE IF q[n].taskId # taskId THEN Append(F[n - 1], q[n])
                 ELSE F[n - 1]
    IN  F[Len(q)]

\* db.insertSyncQueueItem(item)
InsertSyncQueueItem(st, item) ==
    [st EXCEPT !.queue = Append(@, item)]

\* db.updateSyncQueueItem(id, {retryCount, lastError}): no row, no change
UpdateSyncQueueItem(st, id, retryCount, lastError) ==
    [st EXCEPT !.queue =
        [n \in 1..Len(@) |->
            IF @[n].id = id
            THEN [@[n] EXCEPT !.retryCount = retryCount, !.lastError = lastError]
            ELSE @[n]]]

\* db.removeFromSyncQueue(taskId): every row of the task
RemoveFromSyncQueue(st, taskId) ==
    [st EXCEPT !.queue = RowsNotOf(@, taskId)]

\* db.getSyncQueueItems()
GetSyncQueueItems(st) == st.queue

\* ------------------------------------------------------- SyncService (1)
\* addToSyncQueue(taskId, operation, data)
AddToSyncQueue(st, taskId, operation) ==
    LET item == [id |-> st.nextId, taskId |-> taskId, operation |-> operation,
                 retryCount |-> 0, lastError |-> "none"]
    IN  [InsertSyncQueueItem(st, item) EXCEPT !.nextId = @ + 1]

\* ----------------------------------------------------------- TaskService
\* createTask(taskData), for the fresh id `id`
CreateTaskIn(st, id, now) ==
    LET task == [exists |-> TRUE, isDeleted |-> FALSE, updatedAt |-> now,
                 syncStatus |-> "pending", lastSyncedAt |-> NULL,
                 serverId |-> NULL]
    IN  AddToSyncQueue([st EXCEPT !.tasks[id] = task], id, "create")

\* The record { ...task, ...updates, updatedAt: now, syncStatus: 'pending' }.
\* `updates` is a record holding a subset of the fields of a task.
Merged(task, updates, now) ==
    [f \in DOMAIN task |->
        IF f = "updatedAt" THEN now
        ELSE IF f = "syncStatus" THEN "pending"
        ELSE IF f \in DOMAIN updates THEN updates[f]
        ELSE task[f]]

\* getTask(id): the record, or null for a missing or deleted one
GetTask(st, id) ==
    IF ~st.tasks[id].exists \/ st.tasks[id].isDeleted
    THEN NULL
    ELSE st.tasks[id]

\* getAllTasks(): tasks.filter(t => !t.isDeleted), as the ids of its records
GetAllTasks(st) ==
    {id \in TaskIds : st.tasks[id].exists /\ ~st.tasks[id].isDeleted}

\* What updateTask(id, updates) returns: the new record, or null
UpdateTaskReturns(st, id, updates, now) ==
    IF ~st.tasks[id].exists \/ st.tasks[id].isDeleted
    THEN NULL
    ELSE Merged(st.tasks[id], updates, now)

\* What deleteTask(id) returns
DeleteTaskReturns(st, id) ==
    ~(~st.tasks[id].exists \/ st.tasks[id].isDeleted)

\* updateTask(id, updates) that does not look at isDeleted.
UpdateTaskInDeleted(st, id, updates, now) ==
    IF ~st.tasks[id].exists
    THEN st
    ELSE AddToSyncQueue(
            [st EXCEPT !.tasks[id] = Merged(st.tasks[id], updates, now)],
            id, "update")

\* updateTask(id, updates): null, and no change, for a missing or deleted task
UpdateTaskIn(st, id, updates, now) ==
    IF ~st.tasks[id].exists \/ st.tasks[id].isDeleted
    THEN st
    ELSE AddToSyncQueue(
            [st EXCEPT !.tasks[id] = Merged(st.tasks[id], updates, now)],
            id, "update")

\* deleteTask(id) that queues the soft delete as an 'update'.
DeleteTaskInAsUpdate(st, id, now) ==
    IF ~st.tasks[id].exists \/ st.tasks[id].isDeleted
    THEN st
    ELSE AddToSyncQueue(
            [st EXCEPT !.tasks[id] =
                [@ EXCEPT !.isDeleted = TRUE, !.updatedAt = now,
                          !.syncStatus = "pending"]],
            id, "update")

\* deleteTask(id): false, and no change, for a missing or deleted task
DeleteTaskIn(st, id, now) ==
    IF ~st.tasks[id].exists \/ st.tasks[id].isDeleted
    THEN st
    ELSE AddToSyncQueue(
            [st EXCEPT !.tasks[id] =
                [@ EXCEPT !.isDeleted = TRUE, !.updatedAt = now,
                          !.syncStatus = "pending"]],
            id, "delete")

\* ------------------------------------------------------- SyncService (2)
\* updateSyncStatus(taskId, status, serverData): serverId is serverData?.id
UpdateSyncStatus(st, taskId, status, serverId, now) ==
    LET base == [syncStatus |-> status, lastSyncedAt |-> now]
        updates == IF serverId # NULL
                   THEN [syncStatus |-> status, lastSyncedAt |-> now,
                         serverId |-> serverId]
                   ELSE base
        after == UpdateTaskIn(st, taskId, updates, now)
    IN  IF status = "synced" THEN RemoveFromSyncQueue(after, taskId) ELSE after

\* item.retryCount += 1
Incremented(retryCount) == retryCount + 1

\* retryCount > 3
Exhausted(retryCount) == retryCount > RetryCeiling

\* handleSyncError with the row written before the count is raised.
HandleSyncErrorStale(st, item, message, now) ==
    LET rc == Incremented(item.retryCount)
        persisted == UpdateSyncQueueItem(st, item.id, item.retryCount, message)
    IN  IF Exhausted(rc)
        THEN RemoveFromSyncQueue(
                UpdateSyncStatus(persisted, item.taskId, "error", NULL, now),
                item.taskId)
        ELSE persisted

\* handleSyncError(item, error): the stores afterwards; the item object
\* itself ends with retryCount Incremented(item.retryCount).
HandleSyncError(st, item, message, now) ==
    LET rc == Incremented(item.retryCount)
        persisted == UpdateSyncQueueItem(st, item.id, rc, message)
    IN  IF Exhausted(rc)
        THEN RemoveFromSyncQueue(
                UpdateSyncStatus(persisted, item.taskId, "error", NULL, now),
                item.taskId)
        ELSE persisted

\* The store calls of updateTask(id, updates), as the stores after each one:
\* getTaskById, then for a live task updateTask and insertSyncQueueItem.
UpdateTaskCalls(st, id, updates, now) ==
    IF ~st.tasks[id].exists \/ st.tasks[id].isDeleted
    THEN <<st>>
    ELSE LET written == [st EXCEPT !.tasks[id] = Merged(st.tasks[id], updates, now)]
         IN  <<st, written, AddToSyncQueue(written, id, "update")>>

\* The store calls of updateSyncStatus: those of updateTask, then
\* removeFromSyncQueue when status is 'synced'.
UpdateSyncStatusCalls(st, taskId, status, serverId, now) ==
    LET base == [syncStatus |-> status, lastSyncedAt |-> now]
        updates == IF serverId # NULL
                   THEN [syncStatus |-> status, lastSyncedAt |-> now,
                         serverId |-> serverId]
                   ELSE base
        written == UpdateTaskCalls(st, taskId, updates, now)
    IN  IF status = "synced"
        THEN Append(written,
                    RemoveFromSyncQueue(written[Len(written)], taskId))
        ELSE written

\* The store calls of handleSyncError: updateSyncQueueItem, then past the
\* ceiling those of updateSyncStatus and removeFromSyncQueue.
HandleSyncErrorCalls(st, item, message, now) ==
    LET rc == Incremented(item.retryCount)
        persisted == UpdateSyncQueueItem(st, item.id, rc, message)
        marked == UpdateSyncStatusCalls(persisted, item.taskId, "error",
                                        NULL, now)
    IN  IF Exhausted(rc)
        THEN <<persisted>> \o marked \o
             <<RemoveFromSyncQueue(marked[Len(marked)], item.taskId)>>
        ELSE <<persisted>>

\* The stores when call number c of `made` throws: the calls before it have
\* taken effect, the failing one has not.
StoresBefore(st, made, c) == IF c = 1 THEN st ELSE made[c - 1]

\* queueItems.slice(i, i + batchSize), as the 1-based positions it holds
BatchPositions(len, from, size) ==
    {n \in 1..len : from < n /\ n <= from + size}

\* i <= queueItems.length
MoreBatchesInclusive(from, len) == from <= len

\* The loop condition of sync(): i < queueItems.length
MoreBatches(from, len) == from < len

\* i += batchSize + 1
NextIndexSkipping(from, size) == from + size + 1

\* i += batchSize
NextIndex(from, size) == from + size

\* batch.find((it) => it.taskId === res.taskId): the first position, or 0
FindByTaskId(items, positions, taskId) ==
    LET hits == {n \in positions : items[n].taskId = taskId}
    IN  IF hits = {} THEN 0
        ELSE CHOOSE n \in hits : \A m \in hits : n <= m

\* res.error || 'Sync error'
ErrorMessage(error) == IF error = "" THEN "Sync error" ELSE error

Batch(p) == BatchPositions(Len(queueItems[p]), i[p], batchSize)

\* The positions of a batch in request order.
BatchSeq(p) ==
    LET n == Cardinality(Batch(p))
    IN  [j \in 1..n |-> i[p] + j]

\* ------------------------------------------------------------------ Init
NoResponse == [status |-> 0, successCount |-> 0, errorCount |-> 0, total |-> 0]

NoEntry == [kind |-> "none", from |-> 0, retry |-> <<>>, errorCount |-> 0,
            synced |-> {}]

\* The program after construction, no call of resolveConflict in hand.
InitProgram ==
    /\ tasks = [t \in TaskIds |-> NoTask]
    /\ queue = <<>>
    /\ nextId = 1
    /\ clock = 1
    /\ batchSize \in 1..MaxBatch
    /\ pc = [p \in Procs |-> "idle"]
    /\ queueItems = [p \in Procs |-> <<>>]
    /\ i = [p \in Procs |-> 0]
    /\ results = [p \in Procs |-> <<>>]
    /\ k = [p \in Procs |-> 0]
    /\ successCount = [p \in Procs |-> 0]
    /\ errorCount = [p \in Procs |-> 0]
    /\ calls = [p \in Procs |-> <<>>]
    /\ response = [p \in Procs |-> NoResponse]
    /\ entry = [p \in Procs |-> NoEntry]
    /\ attempts = <<>>
    /\ mutations = 0
    /\ syncs = 0

Init ==
    /\ InitProgram
    /\ conflict = <<>>

\* The stores after a handler's step; `attempts` covers every row id given out.
Install(st) ==
    /\ tasks' = st.tasks
    /\ queue' = st.queue
    /\ nextId' = st.nextId
    /\ attempts' = [id \in 1..(st.nextId - 1) |->
                        IF id \in DOMAIN attempts THEN attempts[id] ELSE 0]

\* --------------------------------------------------------------- actions
\* The wall clock advances.
Tick ==
    /\ clock < MaxClock
    /\ clock' = clock + 1
    /\ UNCHANGED <<storeVars, batchSize, conflict, procVars, attempts,
                   mutations, syncs>>

\* One call of the record service, of at most `limit`.
MutateUpTo(st, limit) ==
    /\ mutations < limit
    /\ mutations' = mutations + 1
    /\ Install(st)
    /\ UNCHANGED <<clock, batchSize, conflict, procVars, syncs>>

\* TaskService.createTask: uuidv4() gives an id no record has.
CreateTaskUpTo(t, limit) ==
    /\ ~tasks[t].exists
    /\ \A u \in TaskIds : u < t => tasks[u].exists
    /\ MutateUpTo(CreateTaskIn(Stores, t, clock), limit)

\* TaskService.updateTask called by a user, with fields of the task's content
UpdateTaskUpTo(t, limit) ==
    /\ MutateUpTo(UpdateTaskIn(Stores, t, <<>>, clock), limit)

\* TaskService.deleteTask
DeleteTaskUpTo(t, limit) ==
    /\ MutateUpTo(DeleteTaskIn(Stores, t, clock), limit)

CreateTask(t) == CreateTaskUpTo(t, MaxMutations)

UpdateTask(t) == UpdateTaskUpTo(t, MaxMutations)

DeleteTask(t) == DeleteTaskUpTo(t, MaxMutations)

\* POST /sync arrives: the handler calls checkConnectivity(). Handlers are
\* interchangeable, so the request takes the first free one.
PostSyncUpTo(p, limit) ==
    /\ pc[p] = "idle"
    /\ \A q \in Procs : q < p => pc[q] # "idle"
    /\ syncs < limit
    /\ syncs' = syncs + 1
    /\ pc' = [pc EXCEPT ![p] = "probe"]
    /\ UNCHANGED <<storeVars, clock, batchSize, conflict, queueItems, i,
                   results, k, successCount, errorCount, calls, entry,
                   response, attempts, mutations>>

PostSync(p) == PostSyncUpTo(p, MaxSyncs)

\* A handler that answers 503 on false without returning, and so goes on to
\* sync().
ProbeUngated(p) ==
    /\ pc[p] = "probe"
    /\ \E connected \in BOOLEAN :
        IF connected
        THEN /\ pc' = [pc EXCEPT ![p] = "start"]
             /\ UNCHANGED response
        ELSE /\ pc' = [pc EXCEPT ![p] = "start"]
             /\ response' = [response EXCEPT ![p] =
                                [NoResponse EXCEPT !.status = 503]]
    /\ UNCHANGED <<storeVars, clock, batchSize, conflict, queueItems, i,
                   results, k, successCount, errorCount, calls, entry,
                   attempts, mutations, syncs>>

\* checkConnectivity() returns; on false the handler answers 503.
Probe(p) ==
    /\ pc[p] = "probe"
    /\ \E connected \in BOOLEAN :
        IF connected
        THEN /\ pc' = [pc EXCEPT ![p] = "start"]
             /\ UNCHANGED response
        ELSE /\ pc' = [pc EXCEPT ![p] = "idle"]
             /\ response' = [response EXCEPT ![p] =
                                [NoResponse EXCEPT !.status = 503]]
    /\ UNCHANGED <<storeVars, clock, batchSize, conflict, queueItems, i,
                   results, k, successCount, errorCount, calls, entry,
                   attempts, mutations, syncs>>

\* sync(): const queueItems = await this.db.getSyncQueueItems()
ReadQueue(p) ==
    /\ pc[p] = "start"
    /\ pc' = [pc EXCEPT ![p] = "loop"]
    /\ queueItems' = [queueItems EXCEPT ![p] = GetSyncQueueItems(Stores)]
    /\ UNCHANGED <<storeVars, clock, batchSize, conflict, i, results, k,
                   successCount, errorCount, calls, entry, response, attempts,
                   mutations, syncs>>

\* What the remote endpoint says of one request item.
Outcomes == {"ok", "rejected", "failed"}

\* One result per request item: taskId, success, error, serverData.id; `itemId`
\* is the row the remote endpoint judged, which the response does not carry.
ResultFor(item, outcome) ==
    [taskId |-> item.taskId,
     success |-> (outcome = "ok"),
     error |-> IF outcome = "rejected" THEN "rejected" ELSE "",
     serverId |-> IF outcome = "ok" THEN item.taskId ELSE NULL,
     itemId |-> item.id]

\* What holds when a batch is sent: where it starts, its items' retry
\* counts, errorCount, and the tasks already synced.
EntryOf(p, kind) ==
    [kind |-> kind,
     from |-> i[p],
     retry |-> [j \in 1..Len(BatchSeq(p)) |->
                    queueItems[p][BatchSeq(p)[j]].retryCount],
     errorCount |-> errorCount[p],
     synced |-> {t \in TaskIds : tasks[t].syncStatus = "synced"}]

\* The request of processBatch: the batch's rows, each sent once more.
Sent(p) ==
    /\ calls' = [calls EXCEPT ![p] =
                    Append(@, [j \in 1..Len(BatchSeq(p)) |->
                                    queueItems[p][BatchSeq(p)[j]].id])]
    /\ attempts' = [id \in DOMAIN attempts |->
                        IF \E n \in Batch(p) : queueItems[p][n].id = id
                        THEN attempts[id] + 1 ELSE attempts[id]]
    /\ k' = [k EXCEPT ![p] = 1]

\* processBatch(batch) returns response.results.
BatchAnsweredWith(p, outcomes) ==
    /\ pc[p] = "loop"
    /\ MoreBatches(i[p], Len(queueItems[p]))
    /\ \E out \in [1..Len(BatchSeq(p)) -> outcomes] :
        results' = [results EXCEPT ![p] =
            [j \in 1..Len(BatchSeq(p)) |->
                ResultFor(queueItems[p][BatchSeq(p)[j]], out[j])]]
    /\ pc' = [pc EXCEPT ![p] = "results"]
    /\ entry' = [entry EXCEPT ![p] = EntryOf(p, "response")]
    /\ Sent(p)
    /\ UNCHANGED <<storeVars, clock, batchSize, conflict, queueItems, i,
                   successCount, errorCount, response, mutations, syncs>>

BatchAnswered(p) == BatchAnsweredWith(p, Outcomes)

\* processBatch(batch) throws: network error or non-success status.
BatchFailed(p) ==
    /\ pc[p] = "loop"
    /\ MoreBatches(i[p], Len(queueItems[p]))
    /\ pc' = [pc EXCEPT ![p] = "catch"]
    /\ entry' = [entry EXCEPT ![p] = EntryOf(p, "transport")]
    /\ Sent(p)
    /\ UNCHANGED <<storeVars, clock, batchSize, conflict, queueItems, i,
                   results, successCount, errorCount, response, mutations,
                   syncs>>

\* A sync() that gives up at the end of a batch whose request failed instead
\* of going back to the loop head.
BatchDoneAborting(p, last) ==
    /\ k' = [k EXCEPT ![p] = IF last THEN 0 ELSE @ + 1]
    /\ pc' = [pc EXCEPT ![p] = IF last
                                THEN (IF @ = "catch" THEN "idle" ELSE "loop")
                                ELSE @]
    /\ i' = [i EXCEPT ![p] = IF last THEN NextIndex(@, batchSize) ELSE @]
    /\ results' = [results EXCEPT ![p] = IF last THEN <<>> ELSE @]

\* The end of one batch: back to the loop head with i += batchSize.
BatchDone(p, last) ==
    /\ k' = [k EXCEPT ![p] = IF last THEN 0 ELSE @ + 1]
    /\ pc' = [pc EXCEPT ![p] = IF last THEN "loop" ELSE @]
    /\ i' = [i EXCEPT ![p] = IF last THEN NextIndex(@, batchSize) ELSE @]
    /\ results' = [results EXCEPT ![p] = IF last THEN <<>> ELSE @]

\* One turn of `for (const res of response.results)`.
ApplyResult(p) ==
    /\ pc[p] = "results"
    /\ LET res == results[p][k[p]]
           pos == FindByTaskId(queueItems[p], Batch(p), res.taskId)
       IN  /\ IF res.success
              THEN /\ Install(UpdateSyncStatus(Stores, res.taskId, "synced",
                                               res.serverId, clock))
                   /\ successCount' = [successCount EXCEPT ![p] = @ + 1]
                   /\ UNCHANGED <<queueItems, errorCount>>
              ELSE /\ IF pos # 0
                      THEN /\ Install(HandleSyncError(Stores, queueItems[p][pos],
                                            ErrorMessage(res.error), clock))
                           /\ queueItems' = [queueItems EXCEPT
                                ![p][pos].retryCount = Incremented(@)]
                      ELSE /\ Install(Stores)
                           /\ UNCHANGED queueItems
                   /\ errorCount' = [errorCount EXCEPT ![p] = @ + 1]
                   /\ UNCHANGED successCount
    /\ BatchDone(p, k[p] = Len(results[p]))
    /\ UNCHANGED <<clock, batchSize, conflict, calls, entry, response,
                   mutations, syncs>>

\* err.message of the error the catch block of sync() holds.
CaughtMessage(p) ==
    IF entry[p].kind = "storage" THEN "Storage Error" ELSE "Network Error"

\* One turn of `for (const item of batch)` in the catch block; after the
\* last one, errorCount += batch.length.
HandleFailedItem(p) ==
    /\ pc[p] = "catch"
    /\ LET pos == BatchSeq(p)[k[p]]
           last == k[p] = Len(BatchSeq(p))
       IN  /\ Install(HandleSyncError(Stores, queueItems[p][pos],
                                      CaughtMessage(p), clock))
           /\ queueItems' = [queueItems EXCEPT
                                ![p][pos].retryCount = Incremented(@)]
           /\ errorCount' = [errorCount EXCEPT ![p] =
                                IF last THEN @ + Len(BatchSeq(p)) ELSE @]
           /\ BatchDone(p, last)
    /\ UNCHANGED <<clock, batchSize, conflict, successCount, calls, entry,
                   response, mutations, syncs>>

\* return { successCount, errorCount, total: queueItems.length }, which the
\* handler answers; the locals of sync() are gone.
Return(p) ==
    /\ pc[p] = "loop"
    /\ ~MoreBatches(i[p], Len(queueItems[p]))
    /\ pc' = [pc EXCEPT ![p] = "idle"]
    /\ response' = [response EXCEPT ![p] =
            [status |-> 200, successCount |-> successCount[p],
             errorCount |-> errorCount[p], total |-> Len(queueItems[p])]]
    /\ queueItems' = [queueItems EXCEPT ![p] = <<>>]
    /\ i' = [i EXCEPT ![p] = 0]
    /\ successCount' = [successCount EXCEPT ![p] = 0]
    /\ errorCount' = [errorCount EXCEPT ![p] = 0]
    /\ calls' = [calls EXCEPT ![p] = <<>>]
    /\ entry' = [entry EXCEPT ![p] = NoEntry]
    /\ UNCHANGED <<storeVars, clock, batchSize, conflict, results, k,
                   attempts, mutations, syncs>>

SyncStep(p) ==
    \/ Probe(p)
    \/ ReadQueue(p)
    \/ BatchAnswered(p)
    \/ BatchFailed(p)
    \/ ApplyResult(p)
    \/ HandleFailedItem(p)
    \/ Return(p)

Next ==
    \/ Tick
    \/ \E t \in TaskIds : CreateTask(t)
    \/ \E t \in TaskIds : UpdateTask(t)
    \/ \E t \in TaskIds : DeleteTask(t)
    \/ \E p \in Procs : PostSync(p)
    \/ \E p \in Procs : SyncStep(p)

Spec == Init /\ [][Next]_vars

\* The same program when the user creates one task and the remote endpoint
\* never accepts anything: one operation retried over repeated POST /sync.
CreateOnly == CreateTaskUpTo(1, 1)

PostSyncRetry(p) == PostSyncUpTo(p, MaxRetrySyncs)

BatchRejected(p) == BatchAnsweredWith(p, {"rejected", "failed"})

RetryStep(p) ==
    \/ Probe(p)
    \/ ReadQueue(p)
    \/ BatchRejected(p)
    \/ BatchFailed(p)
    \/ ApplyResult(p)
    \/ HandleFailedItem(p)
    \/ Return(p)

NextRetry ==
    \/ CreateOnly
    \/ \E p \in Procs : PostSyncRetry(p)
    \/ \E p \in Procs : RetryStep(p)

SpecRetry == Init /\ [][NextRetry]_vars

\* The same program around a single POST /sync, with up to MaxItems record
\* mutations before, during and after it.
CreateItem(t) == CreateTaskUpTo(t, MaxItems)

UpdateItem(t) == UpdateTaskUpTo(t, MaxItems)

DeleteItem(t) == DeleteTaskUpTo(t, MaxItems)

PostSyncOnce(p) == PostSyncUpTo(p, 1)

NextBatch ==
    \/ \E t \in TaskIds : CreateItem(t)
    \/ \E t \in TaskIds : UpdateItem(t)
    \/ \E t \in TaskIds : DeleteItem(t)
    \/ \E p \in Procs : PostSyncOnce(p)
    \/ \E p \in Procs : SyncStep(p)

\* A handler that can take a step takes it: the event loop resumes every
\* awaited call, and the remote endpoint answers or the request fails.
FairBatchSpec ==
    Init /\ [][NextBatch]_vars /\ \A p \in Procs : WF_vars(SyncStep(p))

\* ---------------------------------------------------- conflict resolution
\* new Date(localTask.updatedAt) >= new Date(serverTask.updatedAt)
ResolveConflictTiesLocal(localTask, serverTask) ==
    IF localTask.updatedAt >= serverTask.updatedAt
    THEN localTask
    ELSE serverTask

\* resolveConflict(localTask, serverTask): updatedAt is the instant the
\* Date of the field stands for.
ResolveConflict(localTask, serverTask) ==
    IF localTask.updatedAt > serverTask.updatedAt
    THEN localTask
    ELSE serverTask

\* The task objects resolveConflict is given.
ConflictTasks ==
    [exists : {TRUE}, isDeleted : BOOLEAN, updatedAt : 1..MaxStamp,
     syncStatus : {"pending", "synced"}, lastSyncedAt : {NULL},
     serverId : {NULL}]

InitConflict ==
    /\ InitProgram
    /\ conflict \in {<<l, s>> : l \in ConflictTasks, s \in ConflictTasks}

\* resolveConflict returns; it makes no store call.
Resolve ==
    /\ Len(conflict) = 2
    /\ conflict' = Append(conflict, ResolveConflict(conflict[1], conflict[2]))
    /\ UNCHANGED <<storeVars, clock, batchSize, procVars, attempts, mutations,
                   syncs>>

SpecConflict == InitConflict /\ [][Resolve]_vars

\* ------------------------------------------------------ storage failures
\* The handler's catch answers 500 with the error's message; the locals of
\* sync() are gone.
Thrown(p) ==
    /\ pc' = [pc EXCEPT ![p] = "idle"]
    /\ response' = [response EXCEPT ![p] =
            [status |-> 500, successCount |-> 0, errorCount |-> 0,
             total |-> 0]]
    /\ queueItems' = [queueItems EXCEPT ![p] = <<>>]
    /\ i' = [i EXCEPT ![p] = 0]
    /\ results' = [results EXCEPT ![p] = <<>>]
    /\ k' = [k EXCEPT ![p] = 0]
    /\ successCount' = [successCount EXCEPT ![p] = 0]
    /\ errorCount' = [errorCount EXCEPT ![p] = 0]
    /\ calls' = [calls EXCEPT ![p] = <<>>]
    /\ entry' = [entry EXCEPT ![p] = NoEntry]

\* getSyncQueueItems() throws: sync() is outside its try block.
ReadQueueFails(p) ==
    /\ pc[p] = "start"
    /\ Thrown(p)
    /\ UNCHANGED <<storeVars, clock, batchSize, conflict, attempts, mutations,
                   syncs>>

\* A store call throws in a turn of the results loop, inside the try block:
\* the catch block takes the error and starts over the whole batch.
ApplyResultFails(p) ==
    /\ pc[p] = "results"
    /\ LET res == results[p][k[p]]
           pos == FindByTaskId(queueItems[p], Batch(p), res.taskId)
           made == IF res.success
                   THEN UpdateSyncStatusCalls(Stores, res.taskId, "synced",
                                              res.serverId, clock)
                   ELSE IF pos # 0
                        THEN HandleSyncErrorCalls(Stores, queueItems[p][pos],
                                    ErrorMessage(res.error), clock)
                        ELSE <<>>
       IN  /\ \E c \in 1..Len(made) : Install(StoresBefore(Stores, made, c))
           /\ queueItems' = IF ~res.success /\ pos # 0
                            THEN [queueItems EXCEPT
                                    ![p][pos].retryCount = Incremented(@)]
                            ELSE queueItems
    /\ pc' = [pc EXCEPT ![p] = "catch"]
    /\ k' = [k EXCEPT ![p] = 1]
    /\ results' = [results EXCEPT ![p] = <<>>]
    /\ entry' = [entry EXCEPT ![p].kind = "storage"]
    /\ UNCHANGED <<clock, batchSize, conflict, i, successCount, errorCount,
                   calls, response, mutations, syncs>>

\* A store call throws in a turn of the catch block: sync() throws.
HandleFailedItemFails(p) ==
    /\ pc[p] = "catch"
    /\ LET made == HandleSyncErrorCalls(Stores, queueItems[p][BatchSeq(p)[k[p]]],
                                        CaughtMessage(p), clock)
       IN  \E c \in 1..Len(made) : Install(StoresBefore(Stores, made, c))
    /\ Thrown(p)
    /\ UNCHANGED <<clock, batchSize, conflict, mutations, syncs>>

StoreFails(p) ==
    \/ ReadQueueFails(p)
    \/ ApplyResultFails(p)
    \/ HandleFailedItemFails(p)

\* The program around a single POST /sync when store calls of sync() can
\* throw.
NextStorage ==
    \/ \E t \in TaskIds : CreateItem(t)
    \/ \E t \in TaskIds : UpdateItem(t)
    \/ \E t \in TaskIds : DeleteItem(t)
    \/ \E p \in Procs : PostSyncOnce(p)
    \/ \E p \in Procs : SyncStep(p)
    \/ \E p \in Procs : StoreFails(p)

SpecStorage == Init /\ [][NextStorage]_vars

\* ---------------------------------------------------------------- claims
\* The handler p takes a step of its results loop or of its catch loop.
Handles(p) == pc[p] \in {"results", "catch"} /\ k'[p] # k[p]

\* The position in queueItems[p] of the item whose failure p handles next
\* (0: none, the step applies a success or finds no item).
FailedPos(p) ==
    IF pc[p] = "catch" THEN BatchSeq(p)[k[p]]
    ELSE IF pc[p] = "results" /\ ~results[p][k[p]].success
         THEN FindByTaskId(queueItems[p], Batch(p), results[p][k[p]].taskId)
         ELSE 0

Succeeds(p) == pc[p] = "results" /\ results[p][k[p]].success

\* C1: when a result with success=true has been applied, the record of its
\* taskId has syncStatus=synced and a lastSyncedAt, and the confirmed row is
\* no longer in the queue store.
C1_SuccessMarksSynced ==
    [][\A p \in Procs :
        (Handles(p) /\ Succeeds(p)) =>
            LET res == results[p][k[p]]
            IN  /\ tasks'[res.taskId].syncStatus = "synced"
                /\ tasks'[res.taskId].lastSyncedAt # NULL
                /\ res.itemId \notin RowIds(queue')]_vars

\* C2: when a failure raises an item's retryCount above 3, then after
\* handleSyncError the owning record has syncStatus=error and the item's row
\* is no longer in the queue store.
C2_ExhaustedMarksError ==
    [][\A p \in Procs :
        (Handles(p) /\ FailedPos(p) # 0) =>
            LET item == queueItems[p][FailedPos(p)]
            IN  Exhausted(Incremented(item.retryCount)) =>
                    /\ tasks'[item.taskId].syncStatus = "error"
                    /\ item.id \notin RowIds(queue')]_vars

\* C3: when a result with success=false is applied and the row it is about
\* is queued, that row's persisted retryCount grows by exactly 1 and its
\* lastError becomes the message; the row stays queued while the new
\* retryCount is at most 3.
C3_EachFailureCounted ==
    [][\A p \in Procs :
        (Handles(p) /\ pc[p] = "results" /\ ~results[p][k[p]].success
            /\ results[p][k[p]].itemId \in RowIds(queue)) =>
            LET res == results[p][k[p]]
                old == RowOf(queue, res.itemId)
            IN  IF res.itemId \in RowIds(queue')
                THEN /\ RowOf(queue', res.itemId).retryCount = old.retryCount + 1
                     /\ RowOf(queue', res.itemId).lastError = ErrorMessage(res.error)
                ELSE old.retryCount + 1 > RetryCeiling]_vars

\* The turns of the catch loop taken so far for the batch that failed.
C4_Turns(p) ==
    IF pc[p] = "catch" THEN k[p] - 1 ELSE Len(entry[p].retry)

\* In and after the catch loop: the items handled so far are one failure up,
\* the others unchanged; errorCount grows once, at the end.
C4_State(p) ==
    (entry[p].kind = "transport") =>
        /\ \A j \in 1..Len(entry[p].retry) :
            LET item == queueItems[p][entry[p].from + j]
            IN  /\ item.retryCount =
                        entry[p].retry[j] + (IF j <= C4_Turns(p) THEN 1 ELSE 0)
                /\ tasks[item.taskId].syncStatus = "synced"
                        => item.taskId \in entry[p].synced
        /\ errorCount[p] = entry[p].errorCount
                + (IF pc[p] = "catch" THEN 0 ELSE Len(entry[p].retry))

\* A turn of the catch loop writes the item's new count and the error to
\* the item's row, if the row is still queued.
C4_Step(p) ==
    (Handles(p) /\ pc[p] = "catch") =>
        LET item == queueItems'[p][FailedPos(p)]
        IN  item.id \in RowIds(queue') =>
                /\ RowOf(queue', item.id).retryCount = item.retryCount
                /\ RowOf(queue', item.id).lastError = "Network Error"

\* C4: when the batch-sync call of a batch fails as a whole, every item of
\* the batch has its retryCount raised by exactly 1 (one item per turn of
\* the catch loop, written through to the item's row), no record of the
\* batch becomes synced, and errorCount has grown by the batch's size when
\* the batch is done.
C4_TransportFailure ==
    /\ [](\A p \in Procs : C4_State(p))
    /\ [][\A p \in Procs : C4_Step(p)]_vars

\* C4 witness: a failed batch of two items has been handled to its end.
C4_Witness ==
    \E p \in Procs :
        /\ entry[p].kind = "transport"
        /\ pc[p] = "loop"
        /\ Len(entry[p].retry) = 2
        /\ errorCount[p] = 2

\* C5: a row leaves the queue store only in a step that applies the success
\* of that very row, or that raises that very row's retryCount above 3.
C5_RemovedOnlyOwn ==
    [][\A n \in 1..Len(queue) :
        queue[n].id \notin RowIds(queue') =>
            \E p \in Procs :
                /\ Handles(p)
                /\ \/ Succeeds(p) /\ results[p][k[p]].itemId = queue[n].id
                   \/ /\ FailedPos(p) # 0
                      /\ queueItems[p][FailedPos(p)].id = queue[n].id
                      /\ Exhausted(Incremented(
                            queueItems[p][FailedPos(p)].retryCount))]_vars

\* The rows a pass in flight has read and not yet sent.
Unsent(p) ==
    IF pc[p] \in {"loop", "results", "catch"}
    THEN {queueItems[p][n].id : n \in {m \in 1..Len(queueItems[p]) : m > i[p]}}
    ELSE {}

\* C6: a row that leaves the queue store has been part of a batch-sync
\* request, or at least is still to be sent by a pass that read it.
C6_AtLeastOnce ==
    [][\A n \in 1..Len(queue) :
        queue[n].id \notin RowIds(queue') =>
            \/ attempts'[queue[n].id] >= 1
            \/ \E p \in Procs : queue[n].id \in Unsent(p)]_vars

\* sync() has been called and has not returned (at "start" it awaits the
\* queue read).
InSync(p) == pc[p] \in {"start", "loop", "results", "catch"}

\* C7: at most one sync() invocation is in progress at any time.
C7_SingleFlight == Cardinality({p \in Procs : InSync(p)}) <= 1

\* C8: the persisted retryCount of a row never decreases, and a step that
\* handles a failure removes a row only if it raised that row's retryCount
\* above 3.
C8_RetryMonotone ==
    [][\A n \in 1..Len(queue) :
        IF queue[n].id \in RowIds(queue')
        THEN RowOf(queue', queue[n].id).retryCount >= queue[n].retryCount
        ELSE \A p \in Procs :
                (Handles(p) /\ ~Succeeds(p)) =>
                    /\ FailedPos(p) # 0
                    /\ queueItems[p][FailedPos(p)].id = queue[n].id
                    /\ Exhausted(Incremented(
                            queueItems[p][FailedPos(p)].retryCount))]_vars

\* C9: an operation that fails on every attempt is sent in at most 4 sync()
\* passes.
C9_AtMostFourPasses ==
    \A id \in DOMAIN attempts : attempts[id] <= RetryCeiling + 1

Ceil(n, b) == (n + b - 1) \div b

\* Where row `id` occurs in the batches p has sent.
Occurrences(p, id) ==
    {<<c, j>> \in (1..Len(calls[p])) \X (1..MaxBatch + 1) :
        j <= Len(calls[p][c]) /\ calls[p][c][j] = id}

\* When the loop of sync() has ended.
C10_Returned(p) ==
    (pc[p] = "loop" /\ ~(i[p] < Len(queueItems[p]))) =>
        /\ Len(calls[p]) = Ceil(Len(queueItems[p]), batchSize)
        /\ \A c \in 1..Len(calls[p]) :
            Len(calls[p][c]) >= 1 /\ Len(calls[p][c]) <= batchSize
        /\ \A n \in 1..Len(queueItems[p]) :
            Cardinality(Occurrences(p, queueItems[p][n].id)) = 1

\* C10: sync() on N items with batch size B sends ceil(N/B) batches of at
\* most B items, every item in exactly one of them, and terminates.
C10_Batching ==
    /\ [](\A p \in Procs : C10_Returned(p))
    /\ \A p \in Procs : (pc[p] = "start") ~> (pc[p] = "idle")

\* C10 witness: a pass over three items with batch size 2 is about to return.
C10_Witness ==
    \E p \in Procs :
        /\ pc[p] = "loop"
        /\ i[p] >= Len(queueItems[p])
        /\ Len(queueItems[p]) = 3
        /\ batchSize = 2
        /\ Len(calls[p]) = 2

\* A failure is being handled by p: the batch request failed, or the response
\* in hand holds a rejected item.
Failing(p) ==
    \/ pc[p] = "catch"
    \/ pc[p] = "results" /\ \E n \in DOMAIN results[p] : ~results[p][n].success

\* A step that handles a failed or rejected item stays in sync(): it goes on
\* with the batch or back to the loop head at the next batch, and the
\* handler has not answered.
C11_Step(p) ==
    (Handles(p) /\ ~Succeeds(p)) =>
        /\ pc'[p] \in {pc[p], "loop"}
        /\ pc'[p] = "loop" => i'[p] = i[p] + batchSize
        /\ Len(queueItems'[p]) = Len(queueItems[p])
        /\ response'[p] = response[p]

\* When the loop ends after failures, every item read has been sent.
C11_AllSent(p) ==
    (pc[p] = "loop" /\ ~(i[p] < Len(queueItems[p])) /\ errorCount[p] > 0) =>
        \A n \in 1..Len(queueItems[p]) :
            Occurrences(p, queueItems[p][n].id) # {}

\* C11: a transport failure or an item rejection in a batch does not abort
\* sync(): the pass goes on to the following batches, sends every item it
\* read, and returns its counts to the handler, which answers 200.
C11_FailureDoesNotAbort ==
    /\ [][\A p \in Procs : C11_Step(p)]_vars
    /\ [](\A p \in Procs : C11_AllSent(p))
    /\ \A p \in Procs :
        Failing(p) ~> (pc[p] = "idle" /\ response[p].status = 200
                                     /\ response[p].errorCount > 0)

\* C11 witness: the first batch of a pass failed or was rejected, and a later
\* batch of the same pass has been sent.
C11_Witness ==
    \E p \in Procs :
        /\ pc[p] \in {"results", "catch"}
        /\ Len(calls[p]) = 2
        /\ errorCount[p] > 0

\* The full and the call-by-call account of the engine's store operations
\* agree when no call throws.
CallsAgree ==
    \A t \in TaskIds, status \in {"synced", "error"}, sid \in {NULL, 1} :
        LET made == UpdateSyncStatusCalls(Stores, t, status, sid, clock)
            item == [id |-> 1, taskId |-> t, operation |-> "update",
                     retryCount |-> IF status = "error" THEN RetryCeiling
                                    ELSE 0,
                     lastError |-> "none"]
            handled == HandleSyncErrorCalls(Stores, item, "Network Error", clock)
        IN  /\ made[Len(made)] = UpdateSyncStatus(Stores, t, status, sid, clock)
            /\ handled[Len(handled)] =
                    HandleSyncError(Stores, item, "Network Error", clock)

\* C12: a store call that throws while sync() applies a result is handed to
\* the caller of sync(), whose handler answers 500; it is not taken by the
\* catch block as a failure of the batch.
C12_StorageFailurePropagates ==
    [][\A p \in Procs :
        (pc[p] = "results" /\ entry'[p].kind = "storage") =>
            /\ pc'[p] = "idle"
            /\ response'[p].status = 500]_vars

\* What sync() returns for an empty queue, as the handler answers it.
EmptyAnswer == [status |-> 200, successCount |-> 0, errorCount |-> 0, total |-> 0]

\* A pass that read an empty queue is at the loop head and has sent nothing
\* and counted nothing.
C13_State(p) ==
    (pc[p] \in {"loop", "results", "catch"} /\ queueItems[p] = <<>>) =>
        /\ pc[p] = "loop"
        /\ calls[p] = <<>>
        /\ successCount[p] = 0 /\ errorCount[p] = 0

\* Reading an empty queue, and leaving the loop after it, change no store;
\* the step that leaves returns the zero counts.
C13_Step(p) ==
    /\ (pc[p] = "start" /\ pc'[p] = "loop" /\ queue = <<>>) =>
            /\ queueItems'[p] = <<>>
            /\ UNCHANGED storeVars
    /\ (pc[p] = "loop" /\ queueItems[p] = <<>> /\ pc'[p] # "loop") =>
            /\ pc'[p] = "idle"
            /\ response'[p] = EmptyAnswer
            /\ UNCHANGED storeVars

\* C13: sync() on an empty queue returns {successCount: 0, errorCount: 0,
\* total: 0}, sends no batch and changes neither store, every time.
C13_EmptyQueue ==
    /\ [](\A p \in Procs : C13_State(p))
    /\ [][\A p \in Procs : C13_Step(p)]_vars

\* C13 witness: a second POST /sync reads an empty queue as the one before,
\* whose zero counts the handler has answered.
C13_Witness ==
    \E p \in Procs :
        /\ syncs = 2
        /\ pc[p] = "loop"
        /\ queueItems[p] = <<>>
        /\ response[p] = EmptyAnswer
        /\ \E t \in TaskIds : tasks[t].exists

\* The operation a record mutation of task t has queued: 'create' for a new
\* record, 'delete' for one it soft-deleted, 'update' otherwise.
KindOf(t) ==
    IF ~tasks[t].exists THEN "create"
    ELSE IF tasks'[t].isDeleted THEN "delete" ELSE "update"

\* A call of the record service either is refused (update or delete of a
\* missing or deleted task) and changes nothing, or changes one live or new
\* record, leaves it pending and appends one row for it.
C14_Mutation ==
    mutations' # mutations =>
        \/ UNCHANGED storeVars
        \/ \E t \in TaskIds :
            /\ tasks[t].exists => ~tasks[t].isDeleted
            /\ tasks'[t].exists
            /\ tasks'[t].syncStatus = "pending"
            /\ \A u \in TaskIds \ {t} : tasks'[u] = tasks[u]
            /\ Len(queue') = Len(queue) + 1
            /\ SubSeq(queue', 1, Len(queue)) = queue
            /\ LET row == queue'[Len(queue')]
               IN  /\ row.taskId = t
                   /\ row.retryCount = 0
                   /\ row.operation = KindOf(t)
                   /\ row.id \notin RowIds(queue)

\* C14: createTask, updateTask and deleteTask leave the record pending and
\* append exactly one queue row for its taskId with retryCount 0 and the
\* operation of the call; a record's syncStatus becomes synced or error
\* only in a step of the sync engine.
C14_MutationsEnqueue ==
    [][/\ C14_Mutation
       /\ \A t \in TaskIds :
            (tasks'[t].syncStatus # tasks[t].syncStatus
                /\ tasks'[t].syncStatus \in {"synced", "error"}) =>
                    \E p \in Procs : Handles(p)]_vars

\* C14 witness: a record has been created, updated and deleted, and the row
\* of the delete is the last of the queue.
C14_Witness ==
    /\ mutations = 3
    /\ Len(queue) = 3
    /\ queue[1].operation = "create"
    /\ queue[2].operation = "update"
    /\ queue[3].operation = "delete"
    /\ queue[3].retryCount = 0
    /\ tasks[queue[3].taskId].isDeleted
    /\ tasks[queue[3].taskId].syncStatus = "pending"

\* The step in which checkConnectivity() returns to the handler p: either
\* sync() is called and nothing is answered yet, or the handler answers 503
\* and is done; neither changes a store or a local of sync().
C15_Probed(p) ==
    (pc[p] = "probe" /\ pc'[p] # "probe") =>
        /\ \/ pc'[p] = "start" /\ response'[p] = response[p]
           \/ pc'[p] = "idle" /\ response'[p] = [NoResponse EXCEPT !.status = 503]
        /\ UNCHANGED <<storeVars, queueItems, calls, attempts>>

\* C15: POST /sync calls sync() only from a connectivity probe that
\* returned true; when the probe returns false the handler answers 503,
\* sync() is not called and no queue row or record changes.
C15_ProbeGates ==
    [][\A p \in Procs :
        /\ C15_Probed(p)
        /\ (InSync(p)' /\ ~InSync(p)) => (pc[p] = "probe" /\ pc'[p] = "start")]_vars

\* C15 witness: a request was refused with 503 while rows were queued, none
\* of which has been sent.
C15_Witness ==
    \E p \in Procs :
        /\ pc[p] = "idle"
        /\ response[p].status = 503
        /\ queue # <<>>
        /\ \A id \in DOMAIN attempts : attempts[id] = 0

\* The updates a caller may pass to updateTask: none, or the engine's.
SomeUpdates ==
    {<<>>, [syncStatus |-> "synced", lastSyncedAt |-> clock],
           [syncStatus |-> "error", lastSyncedAt |-> clock]}

\* In a state: a missing or soft-deleted record is returned by neither
\* getter, and updateTask and deleteTask on it return null and false and
\* leave both stores as they are.
C16_Hidden(t) ==
    (~tasks[t].exists \/ tasks[t].isDeleted) =>
        /\ GetTask(Stores, t) = NULL
        /\ t \notin GetAllTasks(Stores)
        /\ \A u \in SomeUpdates :
            /\ UpdateTaskReturns(Stores, t, u, clock) = NULL
            /\ UpdateTaskIn(Stores, t, u, clock) = Stores
        /\ ~DeleteTaskReturns(Stores, t)
        /\ DeleteTaskIn(Stores, t, clock) = Stores

\* C16: after any create, update, delete and sync steps, a soft-deleted
\* record is not returned by getTask or getAllTasks, updateTask and
\* deleteTask on a soft-deleted or missing record return null and false
\* and change no store, and no step changes a soft-deleted record or
\* queues a row for it.
C16_DeletedStaysHidden ==
    /\ [](\A t \in TaskIds : C16_Hidden(t))
    /\ [][\A t \in TaskIds :
            tasks[t].isDeleted =>
                /\ tasks'[t] = tasks[t]
                /\ \A n \in 1..Len(queue') :
                    queue'[n].taskId = t => queue'[n].id \in RowIds(queue)]_vars

\* C16 witness: a record was created and deleted, a sync pass sent both
\* rows and returned, and a third call of the record service was refused.
C16_Witness ==
    \E t \in TaskIds, p \in Procs :
        /\ tasks[t].isDeleted
        /\ mutations = 3
        /\ nextId = 3
        /\ pc[p] = "idle"
        /\ response[p].status = 200
        /\ response[p].total = 2

\* C17: resolveConflict(local, server) returns local exactly when
\* local.updatedAt is later than server.updatedAt and server otherwise,
\* equal instants included, and changes no store and neither task.
C17_LastWriteWins ==
    /\ [](Len(conflict) = 3 =>
            LET localTask == conflict[1]
                serverTask == conflict[2]
                returned == conflict[3]
            IN  /\ localTask.updatedAt > serverTask.updatedAt =>
                        returned = localTask
                /\ localTask.updatedAt < serverTask.updatedAt =>
                        returned = serverTask
                /\ localTask.updatedAt = serverTask.updatedAt =>
                        returned = serverTask)
    /\ [][/\ UNCHANGED storeVars
          /\ conflict'[1] = conflict[1]
          /\ conflict'[2] = conflict[2]]_vars

\* C17 witness: resolveConflict has returned the server task for two
\* different tasks with the same updatedAt.
C17_Witness ==
    /\ Len(conflict) = 3
    /\ conflict[1].updatedAt = conflict[2].updatedAt
    /\ conflict[1] # conflict[2]
    /\ conflict[3] = conflict[2]

\* C18: the counts sync() returns add up to the number of items it read:
\* successCount + errorCount = total, also when a store call has thrown
\* while the results of a batch were applied.
C18_CountsAddUp ==
    \A p \in Procs :
        response[p].status = 200 =>
            response[p].successCount + response[p].errorCount
                = response[p].total

\* C19: a step of the sync engine changes of a record only syncStatus,
\* lastSyncedAt and serverId: never updatedAt or the soft-delete flag (nor
\* the record's existence), and when it handles a failure neither serverId
\* nor lastSyncedAt.
C19_OnlySyncMetadata ==
    [][\A p \in Procs :
        Handles(p) =>
            \A t \in TaskIds :
                /\ tasks'[t].exists = tasks[t].exists
                /\ tasks'[t].isDeleted = tasks[t].isDeleted
                /\ tasks'[t].updatedAt = tasks[t].updatedAt
                /\ ~Succeeds(p) =>
                    /\ tasks'[t].serverId = tasks[t].serverId
                    /\ tasks'[t].lastSyncedAt = tasks[t].lastSyncedAt]_vars

\* No handler is between the arrival of its request and its answer (record
\* mutations are single steps).
Quiet == \A p \in Procs : pc[p] = "idle"

\* C20: whenever no mutation or sync step is mid-way, every record with
\* syncStatus=pending has at least one row in the sync queue for its
\* taskId.
C20_NoPendingStranded ==
    Quiet =>
        \A t \in TaskIds :
            (tasks[t].exists /\ tasks[t].syncStatus = "pending") =>
                \E n \in 1..Len(queue) : queue[n].taskId = t

====
